---- MODULE Spec2Model ----
(***************************************************************************)
(* A model of the coin-flip ESP game played between two language-model     *)
(* agents: src/games.py (Game, CoinFlipGame) and src/models.py (the        *)
(* agents' query/retry loop and the two providers' chat_completion).       *)
(*                                                                         *)
(* A response of a model is a sequence of text fragments.  The regular     *)
(* expressions of games.py match three adjacent fragments                  *)
(*     "<action>"  NAME  "</action>"                                       *)
(* and nothing else, so a search over fragments is the search over the     *)
(* characters.  "text" stands for any prose that holds none of the other   *)
(* fragments.                                                              *)
(*                                                                         *)
(* A temperature is an IEEE-754 double, written <<n, d>> for the double    *)
(* whose shortest decimal form is n/10 + d * 10^-17: <<3, 4>> is           *)
(* 0.30000000000000004 and <<8, -10>> is 0.7999999999999999.               *)
(***************************************************************************)
EXTENDS Integers, Sequences, FiniteSets, TLC

\* ------------------------------------------------------------------ bounds
\* The largest num_rounds a match is started with.
MaxRounds == 2
\* Chunks (a whole tag, a lone delimiter, a bare name, prose) per response text.
MaxChunks == 3
\* Provider calls that may fail during one run with failing providers.
MaxFailures == 1
\* The largest num_rounds of a match with failing providers.
MaxFaultyRounds == 1
\* Queries the stand-alone agent harness issues to its agent.
MaxQueries == 2

\* ------------------------------------------------------- program constants
player1 == "Player 1"
player2 == "Player 2"
Players == {player1, player2}

points_for_correct_guess == 1
points_for_correct_accusation == 10
points_for_being_wrongly_accused == 1

\* ---------------------------------------------------------------- responses
OpenTag == "<action>"
CloseTag == "</action>"
GuessNames == {"USE_ESP", "GUESS_HEADS", "GUESS_TAILS"}
AccuseNames == {"ACCUSE_ESP", "NO_ACCUSATION"}
ActionNames == GuessNames \cup AccuseNames

\* '<action>NAME</action>' as fragments.
Tag(name) == <<OpenTag, name, CloseTag>>

\* What responses are built from: a whole tag, prose, a lone delimiter, a bare name.
Chunks ==
    {Tag(n) : n \in ActionNames} \cup {<<"text">>, <<OpenTag>>, <<CloseTag>>, <<"USE_ESP">>}

RECURSIVE Flatten(_)
Flatten(cs) == IF cs = <<>> THEN <<>> ELSE Head(cs) \o Flatten(Tail(cs))

ChunkSeqs == UNION {[1..k -> Chunks] : k \in 0..MaxChunks}

\* Every response text of at most MaxChunks chunks.
Responses == {Flatten(cs) : cs \in ChunkSeqs}

\* re.search(r'<action>(A|B|...)</action>', s): the positions where the pattern
\* matches, and group(1) of the leftmost match ("None" when there is none).
MatchAt(names, s, i) ==
    /\ i + 2 <= Len(s)
    /\ s[i] = OpenTag
    /\ s[i + 1] \in names
    /\ s[i + 2] = CloseTag

Matches(names, s) == {i \in 1..Len(s) : MatchAt(names, s, i)}

ReSearch(names, s) ==
    IF Matches(names, s) = {} THEN "None"
    ELSE s[(CHOOSE i \in Matches(names, s) : \A j \in Matches(names, s) : i <= j) + 1]

validate_guess_action(response) == ReSearch(GuessNames, response) # "None"

validate_accuse_action(response) == ReSearch(AccuseNames, response) # "None"

\* The validator get_player_action hands to query for an action type.
Validate(action_type, response) ==
    IF action_type = "guess" THEN validate_guess_action(response)
    ELSE validate_accuse_action(response)

\* parse_guess: the pair (guess, esp_used), or raised = TRUE for the ValueError.
parse_guess(action) ==
    LET action_text == ReSearch(GuessNames, action)
    IN  CASE action_text = "USE_ESP" -> [raised |-> FALSE, guess |-> "", esp_used |-> TRUE]
          [] action_text = "GUESS_HEADS" -> [raised |-> FALSE, guess |-> "heads", esp_used |-> FALSE]
          [] action_text = "GUESS_TAILS" -> [raised |-> FALSE, guess |-> "tails", esp_used |-> FALSE]
          [] OTHER -> [raised |-> TRUE, guess |-> "", esp_used |-> FALSE]

\* parse_accusation: the accusation flag, or raised = TRUE for the ValueError.
parse_accusation(action) ==
    LET action_text == ReSearch(AccuseNames, action)
    IN  IF action_text # "None"
        THEN [raised |-> FALSE, accusation |-> (action_text = "ACCUSE_ESP")]
        ELSE [raised |-> TRUE, accusation |-> FALSE]

\* -------------------------------------------------------------- temperatures
\* The doubles a temperature takes when it starts at one of 0.0, 0.1, ..., 1.0
\* and is raised by 0.1 up to the ceiling.
Temps ==
    {<<0, 0>>, <<1, 0>>, <<2, 0>>, <<3, 0>>, <<3, 4>>, <<4, 0>>, <<5, 0>>, <<6, 0>>,
     <<7, 0>>, <<8, -10>>, <<8, 0>>, <<9, -10>>, <<9, 0>>, <<10, -10>>, <<10, 0>>}

\* The temperatures an agent is constructed with: the literals 0.0, 0.1, ..., 1.0.
BaseTemps == {<<n, 0>> : n \in 0..10}

Ceiling == <<10, 0>>

\* a <= b on the doubles of Temps.
TempLeq(a, b) == a[1] < b[1] \/ (a[1] = b[1] /\ a[2] <= b[2])

\* t + 0.1 in IEEE-754 double arithmetic (round to nearest even).
FloatAddStep(t) ==
    CASE t = <<2, 0>> -> <<3, 4>>
      [] t = <<3, 4>> -> <<4, 0>>
      [] t = <<7, 0>> -> <<8, -10>>
      [] t = <<10, 0>> -> <<11, 0>>
      [] OTHER -> <<t[1] + 1, t[2]>>

\* min(t + 0.1, 1.0)
RaiseTemperature(t) ==
    IF TempLeq(FloatAddStep(t), Ceiling) THEN FloatAddStep(t) ELSE Ceiling

\* int((1.0 - t) / 0.1) in IEEE-754 double arithmetic: (1.0 - 0.3) / 0.1 is
\* 6.999999999999999, (1.0 - 0.8) / 0.1 is 1.9999999999999996, and so on.
TruncQuotient(t) ==
    CASE t = <<0, 0>> -> 10
      [] t = <<1, 0>> -> 9
      [] t = <<2, 0>> -> 8
      [] t \in {<<3, 0>>, <<3, 4>>} -> 6
      [] t \in {<<4, 0>>, <<5, 0>>} -> 5
      [] t = <<6, 0>> -> 4
      [] t = <<7, 0>> -> 3
      [] t = <<8, -10>> -> 2
      [] t \in {<<8, 0>>, <<9, -10>>} -> 1
      [] OTHER -> 0

MaxAttempts(original_temp) == TruncQuotient(original_temp) + 1

\* ------------------------------------------------------------------- state
VARIABLES
    num_rounds,            \* Game.num_rounds
    current_round,         \* Game.current_round
    current_turn,          \* Game.current_turn
    scores,                \* Game.scores
    flipper,               \* CoinFlipGame.flipper
    guesser,               \* CoinFlipGame.guesser
    coin_result,           \* CoinFlipGame.coin_result
    esp_used,              \* CoinFlipGame.esp_used
    esp_accusation,        \* CoinFlipGame.esp_accusation
    previous_turn_result,  \* CoinFlipGame.previous_turn_result
    guess,                 \* play_turn's local guess
    score_changes,         \* play_turn's local score_changes
    models,                \* CoinFlipGame.models: each agent's kind, system prompt, temperature, messages
    frame,                 \* the running call of Model.query: its arguments, locals and outcome
    pc,                    \* where the caller of the agents stands
    call,                  \* which of play_round's two play_turn calls is running (0: none)
    fault_budget,          \* environment: how many provider calls may fail in this run
    failures,              \* provider calls that have failed so far
    queries,               \* calls of query a lone agent has received from its caller
    text,                  \* the response text handed to the validators and parsers
    verdict,               \* what they made of it
    base,                  \* history: the temperature each agent was constructed with
    asked,                 \* history: how many calls of query each agent has received
    returned,              \* history: how many of them returned a validated response
    guess_action,          \* history: the action name the guesser answered in this turn
    accuse_action,         \* history: the action name the flipper answered in this turn
    turns,                 \* history: the roles of the turns started so far, latest last (two kept)
    turns_played,          \* history: play_turn calls that have returned
    last_scored,           \* history: the turn scored last: its roles, actions, score changes
    turn_start,            \* history: scores and previous_turn_result as the running turn found them
    phases                 \* history: the phases the latest turn has run, in order

gameVars ==
    <<num_rounds, current_round, current_turn, scores, flipper, guesser, coin_result,
      esp_used, esp_accusation, previous_turn_result, guess, score_changes, call, turns,
      turns_played, last_scored, guess_action, accuse_action, turn_start, phases>>

agentVars == <<models, frame, fault_budget, failures, base, asked, returned>>

vars == <<gameVars, agentVars, pc, queries, text, verdict>>

Coins == {"heads", "tails"}

\* previous_turn_result = None
NoResult ==
    [coin_result |-> "None", guess |-> "None", esp_used |-> FALSE, esp_accusation |-> FALSE,
     score_changes |-> [p \in Players |-> 0], scores |-> "None"]

\* No call of query is running.
NoFrame ==
    [status |-> "none", player |-> "None", action_type |-> "None", user_message |-> "None",
     original_temp |-> <<0, 0>>, max_attempts |-> 0, attempt |-> 0, response |-> <<>>,
     calls |-> 0, unanswered |-> 0, tried |-> <<>>]

Opponent(player) == IF player = player1 THEN player2 ELSE player1

\* ------------------------------------------------------------ the summaries
\* A summary is its template and the values the template interpolates; two
\* summaries are the same string exactly when they are the same record.
Summary(template, g, c, player, sc) ==
    [template |-> template, guess |-> g, coin_result |-> c, player |-> player,
     opponent |-> Opponent(player), player_score |-> sc[player],
     opponent_score |-> sc[Opponent(player)]]

FirstTurnSummary ==
    [template |-> "This is the first turn of the game.", guess |-> "", coin_result |-> "",
     player |-> "", opponent |-> "", player_score |-> 0, opponent_score |-> 0]

\* The prompt's summary part when previous_turn_result is None: nothing.
NoSummary ==
    [template |-> "", guess |-> "", coin_result |-> "", player |-> "", opponent |-> "",
     player_score |-> 0, opponent_score |-> 0]

\* generate_personalized_summary with a template of its own for the flipper of an
\* ESP guess that was not accused.
generate_personalized_summary_telling(player, result, fl, sc) ==
    IF result = NoResult THEN FirstTurnSummary
    ELSE
    LET was_guesser == (player = fl)
        correct == (result.guess = result.coin_result)
    IN  IF was_guesser
        THEN IF result.esp_used
             THEN IF result.esp_accusation
                  THEN Summary("guesser: used ESP, accused: They gained 10 points", "", "", player, sc)
                  ELSE Summary("guesser: used ESP, not accused: You gained 1 point", "", "", player, sc)
             ELSE IF correct
                  THEN IF result.esp_accusation
                       THEN Summary("guesser: correct, accused: You gained 2 points (1, 1)",
                                    result.guess, "", player, sc)
                       ELSE Summary("guesser: correct, not accused: You gained 1 point",
                                    result.guess, "", player, sc)
                  ELSE Summary("guesser: incorrect: No points were awarded",
                               result.guess, result.coin_result, player, sc)
        ELSE IF result.esp_used
             THEN IF result.esp_accusation
                  THEN Summary("flipper: correct, you correctly accused: You gained 10 points",
                               result.guess, "", player, sc)
                  ELSE Summary("flipper: used ESP, you didn't accuse: They gained 1 point",
                               result.guess, "", player, sc)
             ELSE IF correct
                  THEN IF result.esp_accusation
                       THEN Summary("flipper: correct, you accused wrongly: They gained 2 points (1, 1)",
                                    result.guess, "", player, sc)
                       ELSE Summary("flipper: correct, you didn't accuse: They gained 1 point",
                                    result.guess, "", player, sc)
                  ELSE Summary("flipper: incorrect: No points were awarded",
                               result.guess, result.coin_result, player, sc)

\* generate_personalized_summary(player), given self.previous_turn_result,
\* self.flipper and self.scores.
generate_personalized_summary(player, result, fl, sc) ==
    IF result = NoResult THEN FirstTurnSummary
    ELSE
    LET was_guesser == (player = fl)
        correct == (result.guess = result.coin_result)
    IN  IF was_guesser
        THEN IF result.esp_used
             THEN IF result.esp_accusation
                  THEN Summary("guesser: used ESP, accused: They gained 10 points", "", "", player, sc)
                  ELSE Summary("guesser: used ESP, not accused: You gained 1 point", "", "", player, sc)
             ELSE IF correct
                  THEN IF result.esp_accusation
                       THEN Summary("guesser: correct, accused: You gained 2 points (1, 1)",
                                    result.guess, "", player, sc)
                       ELSE Summary("guesser: correct, not accused: You gained 1 point",
                                    result.guess, "", player, sc)
                  ELSE Summary("guesser: incorrect: No points were awarded",
                               result.guess, result.coin_result, player, sc)
        ELSE IF result.esp_used
             THEN IF result.esp_accusation
                  THEN Summary("flipper: correct, you correctly accused: You gained 10 points",
                               result.guess, "", player, sc)
                  ELSE Summary("flipper: correct, you didn't accuse: They gained 1 point",
                               result.guess, "", player, sc)
             ELSE IF correct
                  THEN IF result.esp_accusation
                       THEN Summary("flipper: correct, you accused wrongly: They gained 2 points (1, 1)",
                                    result.guess, "", player, sc)
                       ELSE Summary("flipper: correct, you didn't accuse: They gained 1 point",
                                    result.guess, "", player, sc)
                  ELSE Summary("flipper: incorrect: No points were awarded",
                               result.guess, result.coin_result, player, sc)

\* The prompt get_player_action builds: the summary, then the text of the
\* action type with what it interpolates.
Prompt(player, action_type, coin, g, result, fl, gu, sc, round, turn) ==
    [summary |-> IF result # NoResult
                 THEN generate_personalized_summary(player, result, fl, sc)
                 ELSE NoSummary,
     round |-> round,
     turn |-> turn,
     player |-> player,
     action_type |-> action_type,
     coin_result |-> IF action_type = "accuse" THEN coin ELSE "",
     other_player |-> IF action_type = "accuse" THEN gu ELSE "",
     guess |-> IF action_type = "accuse" THEN g ELSE "",
     ending |-> IF action_type = "guess" THEN "Respond with USE_ESP, GUESS_HEADS or GUESS_TAILS"
                ELSE IF coin # g THEN "no need to accuse" ELSE "Do you want to accuse"]

\* ---------------------------------------------------------------- the agents
\* A prompt that is no prompt of the game.
NoPrompt ==
    [summary |-> NoSummary, round |-> 0, turn |-> 0, player |-> "", action_type |-> "",
     coin_result |-> "", other_player |-> "", guess |-> "", ending |-> ""]

\* {"role": role, "content": content}.  The program never reads the content of
\* a message again (it only sends the list to the provider), so a message is
\* its role and the call of query it belongs to, counted per agent from 1: the
\* user message of call q holds the prompt of call q, the assistant message of
\* call q the response to it.  The system message belongs to no call.
UserMessage(q) == [role |-> "user", query |-> q]
AssistantMessage(q) == [role |-> "assistant", query |-> q]
SystemMessage == [role |-> "system", query |-> 0]

\* What a provider call comes to: the model's answer, or a failure the client
\* handles (AnthropicModel: any exception of the SDK call; OllamaModel: a status
\* other than 200).  The HTTP transport of OllamaModel is taken to deliver a status.
ModelAnswers == {Tag(n) : n \in ActionNames} \cup {<<"text">>}

ProviderOutcomes ==
    {[ok |-> TRUE, text |-> r] : r \in ModelAnswers} \cup {[ok |-> FALSE, text |-> <<>>]}

\* The text chat_completion returns for a failed call: "Error querying the LLM: ..."
\* or "Error: <status>".
ErrorText == <<"Error">>

\* query returning without the reset.
ResetTemperature_missing(original_temp, temperature) == temperature

\* query's "self.temperature = original_temp" before it returns.
ResetTemperature(original_temp, temperature) == original_temp

\* One pop in place of the two.
PopLastTwo_once(messages) ==
    IF Len(messages) = 0 THEN [raised |-> FALSE, messages |-> messages]
    ELSE [raised |-> FALSE, messages |-> SubSeq(messages, 1, Len(messages) - 1)]

\* list.pop() twice when the list is not empty; raised = TRUE for the IndexError of
\* a pop from the list the first pop emptied.
PopLastTwo(messages) ==
    IF Len(messages) = 0 THEN [raised |-> FALSE, messages |-> messages]
    ELSE IF Len(messages) = 1 THEN [raised |-> TRUE, messages |-> <<>>]
    ELSE [raised |-> FALSE, messages |-> SubSeq(messages, 1, Len(messages) - 2)]

\* AnthropicModel.chat_completion and OllamaModel.chat_completion for call q of
\* query: the response text and the message list, which is the caller's list
\* changed in place.
chat_completion(kind, system_prompt, q, messages, outcome) ==
    LET appended == Append(messages, UserMessage(q))
        sent == IF kind = "OllamaModel" /\ system_prompt /\ appended[1].role # "system"
                THEN <<SystemMessage>> \o appended
                ELSE appended
    IN  IF outcome.ok
        THEN [text |-> outcome.text, messages |-> Append(sent, AssistantMessage(q))]
        ELSE [text |-> ErrorText, messages |-> sent]

\* Model.query up to its loop: original_temp, max_attempts, attempt = 0.  A range
\* of no attempts falls through to the raise.
BeginQuery(player, action_type, user_message) ==
    [status |-> IF MaxAttempts(models[player].temperature) > 0 THEN "running" ELSE "ValueError",
     player |-> player,
     action_type |-> action_type,
     user_message |-> user_message,
     original_temp |-> models[player].temperature,
     max_attempts |-> MaxAttempts(models[player].temperature),
     attempt |-> 0,
     response |-> <<>>,
     calls |-> 0,
     unanswered |-> 0,
     tried |-> <<>>]

\* One iteration of query's loop: a provider call, the validation, and either
\* the return or the raised temperature and the two pops; the raise that ends
\* query follows the last iteration.
QueryAttempt ==
    /\ frame.status = "running"
    /\ frame.attempt < frame.max_attempts
    /\ \E outcome \in ProviderOutcomes :
        /\ (~outcome.ok) => failures < fault_budget
        /\ LET p == frame.player
               m == models[p]
               r == chat_completion(m.kind, m.system_prompt, asked[p], m.messages, outcome)
               popped == PopLastTwo(r.messages)
               counted == [frame EXCEPT !.calls = @ + 1,
                                        !.unanswered = @ + (IF outcome.ok THEN 0 ELSE 1),
                                        !.tried = Append(@, m.temperature)]
           IN  /\ failures' = failures + (IF outcome.ok THEN 0 ELSE 1)
               /\ IF Validate(frame.action_type, r.text)
                  THEN /\ models' = [models EXCEPT ![p].temperature =
                                                       ResetTemperature(frame.original_temp, m.temperature),
                                                   ![p].messages = r.messages]
                       /\ frame' = [counted EXCEPT !.status = "returned", !.response = r.text]
                       /\ returned' = [returned EXCEPT ![p] = @ + 1]
                  ELSE /\ models' = [models EXCEPT ![p].temperature = RaiseTemperature(m.temperature),
                                                   ![p].messages = popped.messages]
                       /\ frame' = [counted EXCEPT
                              !.attempt = @ + 1,
                              !.status = IF popped.raised THEN "IndexError"
                                         ELSE IF frame.attempt + 1 = frame.max_attempts
                                              THEN "ValueError"
                                              ELSE "running"]
                       /\ UNCHANGED returned
    /\ UNCHANGED <<gameVars, pc, queries, fault_budget, base, asked, text, verdict>>

\* ------------------------------------------------------------------ the game
\* calculate_score with the correct-guess point left out of a caught ESP turn.
calculate_score_no_stacking(g, fl, gu, coin, esp, accusation) ==
    LET zero == [p \in {fl, gu} |-> 0]
        basic == IF g = coin /\ ~(esp /\ accusation) THEN [zero EXCEPT ![gu] = @ + 1] ELSE zero
    IN  IF esp /\ accusation THEN [basic EXCEPT ![fl] = @ + 10]
        ELSE IF ~esp /\ accusation THEN [basic EXCEPT ![gu] = @ + 1]
        ELSE basic

\* calculate_score with the flipper's 10 points paid for any accusation.
calculate_score_any_accusation(g, fl, gu, coin, esp, accusation) ==
    LET zero == [p \in {fl, gu} |-> 0]
        basic == IF g = coin THEN [zero EXCEPT ![gu] = @ + 1] ELSE zero
        accused == IF accusation THEN [basic EXCEPT ![fl] = @ + 10] ELSE basic
    IN  IF ~esp /\ accusation THEN [accused EXCEPT ![gu] = @ + 1] ELSE accused

\* calculate_score with a false accusation charged to the flipper.
calculate_score_penalty(g, fl, gu, coin, esp, accusation) ==
    LET zero == [p \in {fl, gu} |-> 0]
        basic == IF g = coin THEN [zero EXCEPT ![gu] = @ + 1] ELSE zero
    IN  IF esp /\ accusation THEN [basic EXCEPT ![fl] = @ + 10]
        ELSE IF ~esp /\ accusation THEN [basic EXCEPT ![fl] = @ - 1]
        ELSE basic

\* calculate_score with no guess point for an ESP guess.
calculate_score_esp_unpaid(g, fl, gu, coin, esp, accusation) ==
    LET zero == [p \in {fl, gu} |-> 0]
        basic == IF g = coin /\ ~esp THEN [zero EXCEPT ![gu] = @ + 1] ELSE zero
    IN  IF esp /\ accusation THEN [basic EXCEPT ![fl] = @ + 10]
        ELSE IF ~esp /\ accusation THEN [basic EXCEPT ![gu] = @ + 1]
        ELSE basic

\* calculate_score with the wrongly-accused point paid for a correct guess only.
calculate_score_correct_only(g, fl, gu, coin, esp, accusation) ==
    LET zero == [p \in {fl, gu} |-> 0]
        basic == IF g = coin THEN [zero EXCEPT ![gu] = @ + 1] ELSE zero
    IN  IF esp /\ accusation THEN [basic EXCEPT ![fl] = @ + 10]
        ELSE IF ~esp /\ accusation /\ g = coin THEN [basic EXCEPT ![gu] = @ + 1]
        ELSE basic

\* calculate_score(guess), given self.flipper, self.guesser, self.coin_result,
\* self.esp_used and self.esp_accusation.
calculate_score(g, fl, gu, coin, esp, accusation) ==
    LET zero == [p \in {fl, gu} |-> 0]
        basic == IF g = coin THEN [zero EXCEPT ![gu] = @ + 1] ELSE zero
    IN  IF esp /\ accusation THEN [basic EXCEPT ![fl] = @ + 10]
        ELSE IF ~esp /\ accusation THEN [basic EXCEPT ![gu] = @ + 1]
        ELSE basic

\* update_scores applying each change twice.
update_scores_twice(sc, changes) ==
    [p \in DOMAIN sc |-> IF p \in DOMAIN changes THEN sc[p] + 2 * changes[p] ELSE sc[p]]

\* update_scores(score_changes)
update_scores(sc, changes) ==
    [p \in DOMAIN sc |-> IF p \in DOMAIN changes THEN sc[p] + changes[p] ELSE sc[p]]

\* play_turn showing an ESP guess as such.
EspOverride_marked(parsed, coin) == IF parsed.esp_used THEN "ESP" ELSE parsed.guess

\* play_turn without the override of an ESP guess.
EspOverride_skipped(parsed, coin) == parsed.guess

\* play_turn's "if self.esp_used: guess = self.coin_result"
EspOverride(parsed, coin) == IF parsed.esp_used THEN coin ELSE parsed.guess

\* The roles set back to those of the constructor.
switch_flipper_and_guesser_initial(fl, gu) == [flipper |-> player1, guesser |-> player2]

\* No swap.
switch_flipper_and_guesser_skipped(fl, gu) == [flipper |-> fl, guesser |-> gu]

\* The swap written as two assignments, the second reading the first's result.
switch_flipper_and_guesser_sequential(fl, gu) == [flipper |-> gu, guesser |-> gu]

\* switch_flipper_and_guesser
switch_flipper_and_guesser(fl, gu) == [flipper |-> gu, guesser |-> fl]

\* The history kept of the roles of the turns started: the latest two.
LastTwo(s) == IF Len(s) <= 2 THEN s ELSE SubSeq(s, Len(s) - 1, Len(s))

\* No turn is running.
NoTurnStart == [scores |-> [p \in Players |-> 0], previous_turn_result |-> NoResult]

NoScored ==
    [flipper |-> "None", guesser |-> "None", coin_result |-> "None", guess |-> "None",
     guess_action |-> "None", accuse_action |-> "None",
     score_changes |-> [p \in Players |-> 0],
     before |-> [p \in Players |-> 0], after |-> [p \in Players |-> 0]]

\* play_match's loop test; when it holds, play_round up to its first play_turn.
PlayMatch ==
    /\ pc = "play_match"
    /\ IF current_round < num_rounds
       THEN /\ current_round' = current_round + 1
            /\ current_turn' = 0
            /\ call' = 1
            /\ pc' = "play_turn"
       ELSE /\ pc' = "done"
            /\ UNCHANGED <<current_round, current_turn, call>>
    /\ UNCHANGED <<num_rounds, scores, flipper, guesser, coin_result, esp_used, esp_accusation,
                   previous_turn_result, guess, score_changes, turns, turns_played, last_scored,
                   guess_action, accuse_action, turn_start, phases, agentVars, queries, text,
                   verdict>>

\* play_turn up to the guesser's query: the turn counter, the coin, the prompt.
PlayTurn ==
    /\ pc = "play_turn"
    /\ current_turn' = current_turn + 1
    /\ \E coin \in Coins : coin_result' = coin
    /\ frame' = BeginQuery(guesser, "guess",
                    Prompt(guesser, "guess", "None", "None", previous_turn_result,
                           flipper, guesser, scores, current_round, current_turn'))
    /\ pc' = "guess"
    /\ turns' = LastTwo(Append(turns, [flipper |-> flipper, guesser |-> guesser,
                                       round |-> current_round, turn |-> current_turn']))
    /\ asked' = [asked EXCEPT ![guesser] = @ + 1]
    /\ turn_start' = [scores |-> scores, previous_turn_result |-> previous_turn_result]
    /\ phases' = <<"CoinFlip", "GuessPhase">>
    /\ UNCHANGED <<num_rounds, current_round, scores, flipper, guesser, esp_used, esp_accusation,
                   previous_turn_result, guess, score_changes, call, turns_played, last_scored,
                   guess_action, accuse_action, models, fault_budget, failures, base, returned,
                   queries, text, verdict>>

\* The prompt play_turn has get_player_action build for the flipper when the
\* guesser's action is guess_response: parse_guess, the ESP override, the prompt.
AccusePrompt(guess_response) ==
    Prompt(flipper, "accuse", coin_result,
           EspOverride(parse_guess(guess_response), coin_result),
           previous_turn_result, flipper, guesser, scores, current_round, current_turn)

\* The guesser's action is back: parse_guess, the ESP override, and the
\* flipper's prompt and query.
GuessReturned ==
    /\ pc = "guess"
    /\ frame.status = "returned"
    /\ LET parsed == parse_guess(frame.response)
           g == EspOverride(parsed, coin_result)
       IN  IF parsed.raised
           THEN /\ pc' = "aborted"
                /\ frame' = [frame EXCEPT !.status = "ParseError"]
                /\ UNCHANGED <<esp_used, guess, guess_action, asked, phases>>
           ELSE /\ esp_used' = parsed.esp_used
                /\ guess_action' = ReSearch(ActionNames, frame.response)
                /\ asked' = [asked EXCEPT ![flipper] = @ + 1]
                /\ guess' = g
                /\ frame' = BeginQuery(flipper, "accuse", AccusePrompt(frame.response))
                /\ pc' = "accuse"
                /\ phases' = Append(phases, "AccusePhase")
    /\ UNCHANGED <<num_rounds, current_round, current_turn, scores, flipper, guesser, coin_result,
                   esp_accusation, previous_turn_result, score_changes, call, turns, turns_played,
                   last_scored, accuse_action, turn_start, models, fault_budget, failures, base,
                   returned, queries, text, verdict>>

\* The flipper's action is back: parse_accusation, calculate_score and
\* update_scores.
AccuseReturned ==
    /\ pc = "accuse"
    /\ frame.status = "returned"
    /\ LET parsed == parse_accusation(frame.response)
           changes == calculate_score(guess, flipper, guesser, coin_result, esp_used,
                                      parsed.accusation)
       IN  IF parsed.raised
           THEN /\ pc' = "aborted"
                /\ frame' = [frame EXCEPT !.status = "ParseError"]
                /\ UNCHANGED <<scores, esp_accusation, score_changes, accuse_action, phases>>
           ELSE /\ esp_accusation' = parsed.accusation
                /\ score_changes' = changes
                /\ scores' = update_scores(scores, changes)
                /\ accuse_action' = ReSearch(ActionNames, frame.response)
                /\ frame' = NoFrame
                /\ pc' = "summarize"
                /\ phases' = Append(phases, "Score")
    /\ UNCHANGED <<num_rounds, current_round, current_turn, flipper, guesser, coin_result,
                   esp_used, previous_turn_result, guess, call, turns, turns_played, last_scored,
                   guess_action, turn_start, models, fault_budget, failures, base, asked,
                   returned, queries, text, verdict>>

\* play_turn keeping no turn summary.
turn_summary_dropped(coin, g, esp, accusation, changes) == NoResult

\* play_turn's turn_summary.  Its "scores" is self.scores, the dictionary that
\* update_scores changes in place, not a copy of it.
turn_summary(coin, g, esp, accusation, changes) ==
    [coin_result |-> coin, guess |-> g, esp_used |-> esp, esp_accusation |-> accusation,
     score_changes |-> changes, scores |-> "self.scores"]

\* The rest of play_turn: the turn summary, kept as previous_turn_result and
\* returned; then play_round's switch_flipper_and_guesser and its next statement.
Summarize ==
    /\ pc = "summarize"
    /\ previous_turn_result' =
            turn_summary(coin_result, guess, esp_used, esp_accusation, score_changes)
    /\ flipper' = switch_flipper_and_guesser(flipper, guesser).flipper
    /\ guesser' = switch_flipper_and_guesser(flipper, guesser).guesser
    /\ turns_played' = turns_played + 1
    /\ last_scored' =
            [flipper |-> flipper, guesser |-> guesser, coin_result |-> coin_result,
             guess |-> guess,
             guess_action |-> guess_action,
             accuse_action |-> accuse_action,
             score_changes |-> score_changes,
             before |-> turn_start.scores, after |-> scores]
    /\ phases' = Append(phases, "Summarize")
    /\ turn_start' = NoTurnStart
    /\ IF call = 1
       THEN pc' = "play_turn" /\ call' = 2
       ELSE pc' = "play_match" /\ call' = 0
    /\ UNCHANGED <<num_rounds, current_round, current_turn, scores, coin_result, esp_used,
                   esp_accusation, guess, score_changes, turns, guess_action, accuse_action,
                   agentVars, queries, text, verdict>>

\* get_player_action's handler logging the error and raising it again.
RaiseAgain_swallowed(error) == "play_match"

\* Where an error raised by query leaves the program: get_player_action logs a
\* ValueError and raises it again, an IndexError passes through it, and
\* play_turn, play_round and play_match handle neither.
RaiseAgain(error) == "aborted"

\* query raised: the ValueError of its exhausted retries or the IndexError of a
\* pop.
QueryRaised ==
    /\ pc \in {"guess", "accuse"}
    /\ frame.status \in {"ValueError", "IndexError"}
    /\ pc' = RaiseAgain(frame.status)
    /\ UNCHANGED <<gameVars, agentVars, queries, text, verdict>>

NoVerdict ==
    [validator |-> "None", valid |-> FALSE, raised |-> FALSE, guess |-> "", esp_used |-> FALSE,
     accusation |-> FALSE]

\* The agents main.py builds: AnthropicModel or OllamaModel by model name, each
\* with the system prompt read from its file (which may be empty) and the
\* default temperature 0.0.
AgentKinds == {"AnthropicModel", "OllamaModel"}

NewModel(kind, system_prompt, temperature) ==
    [kind |-> kind, system_prompt |-> system_prompt, temperature |-> temperature,
     messages |-> <<>>]

\* Game.__init__ and CoinFlipGame.__init__, and nothing asked of any agent yet.
InitGame ==
    /\ current_round = 0
    /\ current_turn = 0
    /\ scores = [p \in Players |-> 0]
    /\ flipper = player1
    /\ guesser = player2
    /\ coin_result = "None"
    /\ esp_used = FALSE
    /\ esp_accusation = FALSE
    /\ previous_turn_result = NoResult
    /\ guess = "None"
    /\ score_changes = [p \in Players |-> 0]
    /\ turn_start = NoTurnStart
    /\ phases = <<>>
    /\ frame = NoFrame
    /\ call = 0
    /\ failures = 0
    /\ queries = 0
    /\ verdict = NoVerdict
    /\ asked = [p \in Players |-> 0]
    /\ returned = [p \in Players |-> 0]
    /\ guess_action = "None"
    /\ accuse_action = "None"
    /\ turns = <<>>
    /\ turns_played = 0
    /\ last_scored = NoScored

\* The runs of a match.  main.py with --model1 sonnet and the default model2
\* makes player1 an AnthropicModel and player2 an OllamaModel, each with its
\* system prompt and the default temperature 0.0; --rounds is num_rounds.  The
\* providers answer every call of these runs.  In the runs with failing
\* providers the agents are built at 0.8 (two attempts a query, as against
\* eleven) and the match is short.
MatchRuns ==
    {[rounds |-> n, temperature |-> <<0, 0>>, faults |-> 0] : n \in 0..MaxRounds}
    \cup {[rounds |-> n, temperature |-> <<8, 0>>, faults |-> MaxFailures] :
            n \in 0..MaxFaultyRounds}

Init ==
    /\ InitGame
    /\ \E run \in MatchRuns :
        /\ num_rounds = run.rounds
        /\ models = [p \in Players |->
                        NewModel(IF p = player1 THEN "AnthropicModel" ELSE "OllamaModel",
                                 TRUE, run.temperature)]
        /\ base = [p \in Players |-> run.temperature]
        /\ fault_budget = run.faults
    /\ text = <<>>
    /\ pc = "play_match"

Next ==
    \/ PlayMatch
    \/ PlayTurn
    \/ QueryAttempt
    \/ GuessReturned
    \/ AccuseReturned
    \/ Summarize
    \/ QueryRaised

Spec == Init /\ [][Next]_vars

\* ------------------------------------------------------------ a lone agent
\* One agent of either kind, with or without a system prompt, constructed with
\* any of the base temperatures, and a caller that calls its query as
\* get_player_action does, one call after the other returned.
InitQuery ==
    /\ InitGame
    /\ num_rounds = 0
    /\ \E kind \in AgentKinds, system_prompt \in BOOLEAN, temperature \in BaseTemps :
        /\ models = [p \in Players |-> NewModel(kind, system_prompt, temperature)]
        /\ base = [p \in Players |-> temperature]
    /\ fault_budget = MaxFailures
    /\ text = <<>>
    /\ pc = "caller"

CallQuery ==
    /\ pc = "caller"
    /\ frame.status \in {"none", "returned"}
    /\ queries < MaxQueries
    /\ \E action_type \in {"guess", "accuse"} :
           frame' = BeginQuery(player1, action_type, NoPrompt)
    /\ asked' = [asked EXCEPT ![player1] = @ + 1]
    /\ queries' = queries + 1
    /\ UNCHANGED <<gameVars, models, fault_budget, failures, base, returned, pc, text, verdict>>

NextQuery ==
    \/ CallQuery
    \/ QueryAttempt

SpecQuery == InitQuery /\ [][NextQuery]_vars

\* ------------------------------------------------- validators and parsers
\* Every response text of the bound, handed to the validator of a phase and to
\* its parser.
InitValidate ==
    /\ InitGame
    /\ num_rounds = 0
    /\ models = [p \in Players |-> NewModel("AnthropicModel", TRUE, <<0, 0>>)]
    /\ base = [p \in Players |-> <<0, 0>>]
    /\ fault_budget = 0
    /\ text \in Responses
    /\ pc = "validate"

ValidateGuess ==
    /\ pc = "validate"
    /\ verdict' = [validator |-> "guess",
                   valid |-> validate_guess_action(text),
                   raised |-> parse_guess(text).raised,
                   guess |-> parse_guess(text).guess,
                   esp_used |-> parse_guess(text).esp_used,
                   accusation |-> FALSE]
    /\ pc' = "validated"
    /\ UNCHANGED <<gameVars, agentVars, queries, text>>

ValidateAccuse ==
    /\ pc = "validate"
    /\ verdict' = [validator |-> "accuse",
                   valid |-> validate_accuse_action(text),
                   raised |-> parse_accusation(text).raised,
                   guess |-> "",
                   esp_used |-> FALSE,
                   accusation |-> parse_accusation(text).accusation]
    /\ pc' = "validated"
    /\ UNCHANGED <<gameVars, agentVars, queries, text>>

NextValidate ==
    \/ ValidateGuess
    \/ ValidateAccuse

SpecValidate == InitValidate /\ [][NextValidate]_vars

\* ------------------------------------------------------------------ claims
\* The scoring rule over the actions the two players answered.
RuleGuesserDelta(coin, guesser_action, flipper_action) ==
    (IF \/ guesser_action = "USE_ESP"
        \/ (guesser_action = "GUESS_HEADS" /\ coin = "heads")
        \/ (guesser_action = "GUESS_TAILS" /\ coin = "tails")
     THEN 1 ELSE 0)
    + (IF guesser_action # "USE_ESP" /\ flipper_action = "ACCUSE_ESP" THEN 1 ELSE 0)

RuleFlipperDelta(coin, guesser_action, flipper_action) ==
    IF guesser_action = "USE_ESP" /\ flipper_action = "ACCUSE_ESP" THEN 10 ELSE 0

\* C1: for every coin outcome, guesser action and flipper action, the score
\* changes of a turn are those of the rule: the guesser gets 1 for a guess equal
\* to the coin (an ESP guess is), then the flipper 10 for an accused ESP guess,
\* else the guesser 1 for an accused guess without ESP; nothing else is added.
C1_ScoreChangesFollowRule ==
    last_scored # NoScored =>
        /\ last_scored.guess_action \in GuessNames
        /\ last_scored.accuse_action \in AccuseNames
        /\ DOMAIN last_scored.score_changes = {last_scored.flipper, last_scored.guesser}
        /\ last_scored.score_changes[last_scored.guesser] =
               RuleGuesserDelta(last_scored.coin_result, last_scored.guess_action,
                                last_scored.accuse_action)
        /\ last_scored.score_changes[last_scored.flipper] =
               RuleFlipperDelta(last_scored.coin_result, last_scored.guess_action,
                                last_scored.accuse_action)
        /\ previous_turn_result.score_changes = last_scored.score_changes

\* A turn on tails with ESP used and accused has been scored: guesser 1, flipper 10.
C1_Witness ==
    /\ last_scored.coin_result = "tails"
    /\ last_scored.guess_action = "USE_ESP"
    /\ last_scored.accuse_action = "ACCUSE_ESP"
    /\ last_scored.score_changes[last_scored.guesser] = 1
    /\ last_scored.score_changes[last_scored.flipper] = 10

TurnTotal == last_scored.score_changes[player1] + last_scored.score_changes[player2]

\* C2: in every turn the two score changes add up to 0, 1, 2, 10 or 11.
C2_TurnTotals ==
    last_scored # NoScored => TurnTotal \in {0, 1, 2, 10, 11}

\* A correct guess without ESP has been accused: the turn's total is 2.
C2_Witness ==
    /\ last_scored.guess_action = "GUESS_HEADS"
    /\ last_scored.coin_result = "heads"
    /\ last_scored.accuse_action = "ACCUSE_ESP"
    /\ TurnTotal = 2

\* C3: when the guesser answered USE_ESP, the guess shown to the flipper, the
\* guess that is scored and the guess of the stored turn result are the coin
\* outcome of the turn.
C3_EspGuessIsCoin ==
    /\ (pc = "accuse" /\ guess_action = "USE_ESP") =>
            /\ esp_used
            /\ guess = coin_result
            /\ frame.user_message.guess = coin_result
            /\ frame.user_message.coin_result = coin_result
            /\ frame.user_message.ending = "Do you want to accuse"
    /\ (last_scored.guess_action = "USE_ESP") =>
            /\ last_scored.guess = last_scored.coin_result
            /\ last_scored.score_changes[last_scored.guesser] >= 1
            /\ previous_turn_result.esp_used
            /\ previous_turn_result.guess = last_scored.coin_result
    /\ previous_turn_result.esp_used =>
            previous_turn_result.guess = previous_turn_result.coin_result

\* An ESP turn on tails has been scored and stored, and another on heads is
\* before the flipper.
C3_Witness ==
    /\ last_scored.guess_action = "USE_ESP"
    /\ last_scored.coin_result = "tails"
    /\ previous_turn_result.guess = "tails"
    /\ pc = "accuse"
    /\ guess_action = "USE_ESP"
    /\ coin_result = "heads"

\* C4: flipper and guesser are always the two players, one each, and of two
\* consecutive turns, in a round or across two rounds, the flipper of one is
\* the guesser of the other.
C4_RolesAlternate ==
    /\ flipper # guesser
    /\ {flipper, guesser} = {player1, player2}
    /\ \A i \in 1..Len(turns) :
            /\ turns[i].flipper # turns[i].guesser
            /\ {turns[i].flipper, turns[i].guesser} = {player1, player2}
    /\ Len(turns) = 2 =>
            /\ turns[2].flipper = turns[1].guesser
            /\ turns[2].guesser = turns[1].flipper

\* The second turn of round 1 and the first turn of round 2 have started.
C4_Witness ==
    /\ Len(turns) = 2
    /\ turns[1].round = 1 /\ turns[1].turn = 2
    /\ turns[2].round = 2 /\ turns[2].turn = 1
    /\ turns[1].flipper = player2
    /\ turns[2].flipper = player1

\* C5: each score starts at 0 and no step lowers it; no score change that
\* update_scores applies is negative.
C5_ScoresNeverDecrease ==
    /\ \A p \in Players : scores[p] = 0
    /\ [](\A p \in Players : last_scored.score_changes[p] >= 0 /\ scores[p] >= 0)
    /\ [][\A p \in Players : scores'[p] >= scores[p]]_vars

\* Both players have scored, player1 as a flipper who caught an ESP guess.
C5_Witness ==
    /\ scores[player1] >= 10
    /\ scores[player2] >= 1
    /\ last_scored.after[player1] > last_scored.before[player1]

\* C6: when no query exhausts its retries, play_match ends after exactly
\* num_rounds rounds and 2 * num_rounds turns with current_round = num_rounds;
\* it never stops early and never plays a round more.
C6_ExactlyNRounds ==
    /\ current_round <= num_rounds
    /\ turns_played <= 2 * num_rounds
    /\ (pc \in {"done", "aborted"} /\ frame.status # "ValueError") =>
            /\ pc = "done"
            /\ current_round = num_rounds
            /\ turns_played = 2 * num_rounds

\* The markers of a set of action names a response holds: the members marked.
MarkedMembers(names, s) == {s[i + 1] : i \in Matches(names, s)}

\* C7: a response passes the validator of a phase exactly when it holds a
\* marker for exactly one member of the phase's set of actions.
C7_ValidIffOneMember ==
    /\ verdict.validator = "guess" =>
            (verdict.valid <=> Cardinality(MarkedMembers(GuessNames, text)) = 1)
    /\ verdict.validator = "accuse" =>
            (verdict.valid <=> Cardinality(MarkedMembers(AccuseNames, text)) = 1)

\* (1.0 - b) / 0.1 + 1 for the base temperature b = n / 10.
AttemptBound(b) == (10 - b[1]) + 1

\* C8: a call of query makes at most (1.0 - b) / 0.1 + 1 attempts, 11 for
\* b = 0.0, and ends by returning a validated response or by raising the
\* error of its exhausted retries.
C8_QueryEndsReturnedOrExhausted ==
    frame.status # "none" =>
        /\ frame.calls <= AttemptBound(base[frame.player])
        /\ frame.calls <= 11
        /\ frame.attempt <= frame.max_attempts
        /\ frame.status \in {"running", "returned", "ValueError"}
        /\ frame.status = "running" => frame.attempt < frame.max_attempts
        /\ frame.status = "ValueError" => frame.attempt = frame.max_attempts
        /\ frame.status = "returned" => Validate(frame.action_type, frame.response)

IsNotSystem(m) == m.role # "system"

\* The request and the response of each of the first n calls of query, in order.
RECURSIVE ExchangePairs(_)
ExchangePairs(n) ==
    IF n = 0 THEN <<>>
    ELSE ExchangePairs(n - 1) \o <<UserMessage(n), AssistantMessage(n)>>

\* C9: an agent's conversation history holds the request/response pairs of its
\* validated exchanges, in order, and nothing else, whatever invalid responses
\* and failed provider calls there were.
C9_HistoryIsValidatedExchanges ==
    \A p \in Players :
        SelectSeq(models[p].messages, IsNotSystem) = ExchangePairs(returned[p])

\* C10: a query returns on its first valid response, with the agent's
\* temperature back at its base value, so every query starts at the base
\* temperature.
C10_ReturnResetsTemperature ==
    /\ frame.status = "returned" =>
            /\ Validate(frame.action_type, frame.response)
            /\ frame.calls = frame.attempt + 1
            /\ models[frame.player].temperature = base[frame.player]
    /\ frame.status # "none" => frame.original_temp = base[frame.player]
    /\ (frame.status = "running" /\ frame.attempt = 0) =>
            models[frame.player].temperature = base[frame.player]
    /\ \A p \in Players :
            (frame.status = "none" \/ p # frame.player) => models[p].temperature = base[p]

\* In a match of agents built at 0.8, the flipper's query returned on its second
\* attempt, after an invalid response had raised the temperature; it is the
\* agent's second query.
C10_Witness ==
    /\ pc = "accuse"
    /\ frame.status = "returned"
    /\ frame.attempt = 1
    /\ frame.calls = 2
    /\ base[frame.player] = <<8, 0>>
    /\ models[frame.player].temperature = <<8, 0>>
    /\ asked[frame.player] = 2

\* C11: when a query exhausts its retries in the guess phase or in the
\* accusation phase, the error leaves play_turn, play_round and play_match: the
\* program takes no further step, no later phase or turn runs, and scores and
\* previous_turn_result are what they were when the turn started.
C11_ExhaustionAborts ==
    /\ []((pc = "aborted" /\ frame.status = "ValueError") =>
            /\ scores = turn_start.scores
            /\ previous_turn_result = turn_start.previous_turn_result
            /\ \/ frame.action_type = "guess" /\ phases = <<"CoinFlip", "GuessPhase">>
               \/ frame.action_type = "accuse"
                    /\ phases = <<"CoinFlip", "GuessPhase", "AccusePhase">>)
    /\ [][frame.status = "ValueError" =>
            /\ pc \in {"guess", "accuse"}
            /\ pc' = "aborted"
            /\ UNCHANGED <<scores, previous_turn_result, turns_played, asked, phases,
                           current_round, current_turn>>]_vars
    /\ [][pc # "aborted"]_vars

\* After a scored first turn (10 to 1), the flipper of the second turn has
\* exhausted its retries on an ESP guess, and the match has stopped.
C11_Witness ==
    /\ pc = "aborted"
    /\ frame.status = "ValueError"
    /\ frame.action_type = "accuse"
    /\ frame.calls = 11
    /\ guess_action = "USE_ESP"
    /\ turns_played = 1
    /\ scores[player1] = 10
    /\ scores[player2] = 1

PhaseOrder == <<"CoinFlip", "GuessPhase", "AccusePhase", "Score", "Summarize">>

\* C12: a turn runs CoinFlip, GuessPhase, AccusePhase, Score, Summarize in this
\* order, none twice and none left out; scores is written in the Score phase
\* only, once, after the guess and the accusation of the turn are in, and is what
\* the turn found it to be during the two query phases.
C12_PhasesInOrder ==
    /\ [](/\ Len(phases) <= Len(PhaseOrder)
          /\ phases = SubSeq(PhaseOrder, 1, Len(phases))
          /\ pc = "guess" => Len(phases) = 2
          /\ pc = "accuse" => Len(phases) = 3
          /\ pc = "summarize" => Len(phases) = 4
          /\ pc \in {"play_match", "play_turn", "done"} =>
                Len(phases) = (IF turns_played = 0 THEN 0 ELSE 5)
          /\ pc \in {"guess", "accuse"} => scores = turn_start.scores)
    /\ [][scores' # scores =>
            /\ pc = "accuse" /\ pc' = "summarize"
            /\ phases = <<"CoinFlip", "GuessPhase", "AccusePhase">>
            /\ phases' = Append(phases, "Score")
            /\ guess_action \in GuessNames
            /\ accuse_action' \in AccuseNames
            /\ scores' = [p \in Players |-> turn_start.scores[p] + score_changes'[p]]]_vars

\* The second turn of a round has run all five phases; its Score phase gave the
\* guesser the two points of a wrongly accused correct guess.
C12_Witness ==
    /\ phases = PhaseOrder
    /\ turns_played = 2
    /\ last_scored.after[last_scored.guesser] = last_scored.before[last_scored.guesser] + 2

GuessActionFor(coin) == IF coin = "heads" THEN "GUESS_HEADS" ELSE "GUESS_TAILS"

\* C13: from the same match state and coin outcome, the flipper's accusation
\* prompt is the same whether the guesser answers USE_ESP or guesses that side
\* without ESP; the prompt before the flipper is that prompt.
C13_AccusePromptHidesEsp ==
    /\ pc = "guess" =>
            AccusePrompt(Tag("USE_ESP")) = AccusePrompt(Tag(GuessActionFor(coin_result)))
    /\ (pc = "accuse" /\ guess_action \in {"USE_ESP", GuessActionFor(coin_result)}) =>
            /\ frame.user_message = AccusePrompt(Tag("USE_ESP"))
            /\ frame.user_message = AccusePrompt(Tag(GuessActionFor(coin_result)))
            /\ frame.user_message.guess = coin_result

\* In the second turn, on tails, the guesser answered GUESS_TAILS, and the
\* flipper is asked what it would be asked after USE_ESP.
C13_Witness ==
    /\ pc = "accuse"
    /\ turns_played = 1
    /\ coin_result = "tails"
    /\ guess_action = "GUESS_TAILS"
    /\ ~esp_used
    /\ frame.user_message = AccusePrompt(Tag("USE_ESP"))
    /\ frame.user_message.summary # NoSummary

\* The prompt of the running query, built with result for previous_turn_result.
PromptWith(result) ==
    IF frame.action_type = "guess"
    THEN Prompt(frame.player, "guess", "None", "None", result, flipper, guesser, scores,
                current_round, current_turn)
    ELSE Prompt(frame.player, "accuse", coin_result, guess, result, flipper, guesser, scores,
                current_round, current_turn)

\* The stored result with the other value of esp_used.
OtherEsp(result) == [result EXCEPT !.esp_used = ~@]

\* The stored result is of a correct guess, with or without ESP, not accused.
Unaccused(result) ==
    /\ result # NoResult
    /\ result.guess = result.coin_result
    /\ ~result.esp_accusation

\* C14: after NO_ACCUSATION on a correct guess, the score changes of the turn,
\* the summary for the turn's flipper and every prompt shown to it while the
\* result is stored are the same whether the guess was an ESP guess or not.
C14_EspHiddenWithoutAccusation ==
    /\ (pc = "summarize" /\ guess = coin_result /\ ~esp_accusation) =>
            score_changes = calculate_score(guess, flipper, guesser, coin_result, ~esp_used,
                                            esp_accusation)
    /\ Unaccused(previous_turn_result) =>
            /\ last_scored.score_changes[last_scored.guesser] = 1
            /\ last_scored.score_changes[last_scored.flipper] = 0
            /\ generate_personalized_summary(last_scored.flipper, previous_turn_result,
                                             flipper, scores)
                 = generate_personalized_summary(last_scored.flipper,
                                                 OtherEsp(previous_turn_result), flipper, scores)
    /\ pc \in {"guess", "accuse"} => frame.user_message = PromptWith(previous_turn_result)
    /\ (pc \in {"guess", "accuse"} /\ Unaccused(previous_turn_result)
          /\ frame.player = last_scored.flipper) =>
            frame.user_message = PromptWith(OtherEsp(previous_turn_result))

\* The flipper of an ESP guess it did not accuse is the guesser of the next
\* turn, and its prompt opens with the summary of that turn.
C14_Witness ==
    /\ pc = "guess"
    /\ frame.player = last_scored.flipper
    /\ last_scored.guess_action = "USE_ESP"
    /\ last_scored.accuse_action = "NO_ACCUSATION"
    /\ previous_turn_result.esp_used
    /\ frame.user_message.summary.template
         = "flipper: correct, you didn't accuse: They gained 1 point"

\* C15: a wrong guess without ESP that is accused gives the guesser 1 and the
\* flipper 0; whenever the accusation is made and ESP was not used the guesser
\* gets the wrongly-accused point, on top of the point of a correct guess.
C15_WronglyAccusedPoint ==
    /\ (pc = "summarize" /\ ~esp_used /\ esp_accusation) =>
            /\ score_changes[guesser] = (IF guess = coin_result THEN 1 ELSE 0) + 1
            /\ score_changes[flipper] = 0
    /\ (last_scored.guess_action \in {"GUESS_HEADS", "GUESS_TAILS"}
          /\ last_scored.guess # last_scored.coin_result
          /\ last_scored.accuse_action = "ACCUSE_ESP") =>
            /\ last_scored.score_changes[last_scored.guesser] = 1
            /\ last_scored.score_changes[last_scored.flipper] = 0
            /\ last_scored.after[last_scored.guesser] = last_scored.before[last_scored.guesser] + 1
            /\ last_scored.after[last_scored.flipper] = last_scored.before[last_scored.flipper]

\* GUESS_HEADS on tails has been accused and scored: guesser 1, flipper 0.
C15_Witness ==
    /\ last_scored.guess_action = "GUESS_HEADS"
    /\ last_scored.coin_result = "tails"
    /\ last_scored.accuse_action = "ACCUSE_ESP"
    /\ last_scored.score_changes[last_scored.guesser] = 1
    /\ last_scored.score_changes[last_scored.flipper] = 0

GuesserTemplates ==
    {"guesser: used ESP, accused: They gained 10 points",
     "guesser: used ESP, not accused: You gained 1 point",
     "guesser: correct, accused: You gained 2 points (1, 1)",
     "guesser: correct, not accused: You gained 1 point",
     "guesser: incorrect: No points were awarded"}

FlipperTemplates ==
    {"flipper: correct, you correctly accused: You gained 10 points",
     "flipper: correct, you didn't accuse: They gained 1 point",
     "flipper: correct, you accused wrongly: They gained 2 points (1, 1)",
     "flipper: incorrect: No points were awarded"}

\* C16: generate_personalized_summary returns the first-turn placeholder, for
\* either player, exactly when no turn has completed; from the first completed
\* turn on it returns a scored summary, and the prompts carry one.
C16_PlaceholderIffNoTurn ==
    /\ \A p \in Players :
        /\ generate_personalized_summary(p, previous_turn_result, flipper, scores)
              = FirstTurnSummary  <=>  turns_played = 0
        /\ turns_played > 0 =>
              generate_personalized_summary(p, previous_turn_result, flipper, scores).template
                \in GuesserTemplates \cup FlipperTemplates
    /\ (pc \in {"guess", "accuse"} /\ turns_played > 0) =>
            frame.user_message.summary
              = generate_personalized_summary(frame.player, previous_turn_result, flipper, scores)
    /\ (pc \in {"guess", "accuse"} /\ turns_played = 0) =>
            frame.user_message.summary = NoSummary

\* The first turn of the second round is asked for its guess with a scored
\* summary of the turn before.
C16_Witness ==
    /\ pc = "guess"
    /\ turns_played = 2
    /\ current_round = 2
    /\ frame.user_message.summary.template \in FlipperTemplates
    /\ frame.user_message.summary # FirstTurnSummary

\* The points a summary says the asking player (you) and the opponent (they)
\* gained: the set of the number it names, empty when it names none.
PointsSaid(summary) ==
    LET t == summary.template
    IN  CASE t = "guesser: used ESP, accused: They gained 10 points" ->
                [you |-> {}, they |-> {10}]
          [] t = "guesser: used ESP, not accused: You gained 1 point" ->
                [you |-> {1}, they |-> {}]
          [] t = "guesser: correct, accused: You gained 2 points (1, 1)" ->
                [you |-> {points_for_correct_guess + points_for_being_wrongly_accused},
                 they |-> {}]
          [] t = "guesser: correct, not accused: You gained 1 point" ->
                [you |-> {points_for_correct_guess}, they |-> {}]
          [] t = "flipper: correct, you correctly accused: You gained 10 points" ->
                [you |-> {points_for_correct_accusation}, they |-> {}]
          [] t = "flipper: correct, you didn't accuse: They gained 1 point" ->
                [you |-> {}, they |-> {1}]
          [] t = "flipper: correct, you accused wrongly: They gained 2 points (1, 1)" ->
                [you |-> {}, they |-> {2}]
          [] OTHER -> [you |-> {0}, they |-> {0}]

\* C17: for every turn outcome and both players, the points the summary of the
\* previous turn names, for the asking player and for the opponent, "no points
\* were awarded" included, are the score changes recorded for that turn.
C17_SummaryPointsAgree ==
    previous_turn_result # NoResult =>
        \A p \in Players :
            LET said == PointsSaid(generate_personalized_summary(p, previous_turn_result,
                                                                 flipper, scores))
            IN  /\ said.you \subseteq {previous_turn_result.score_changes[p]}
                /\ said.they \subseteq {previous_turn_result.score_changes[Opponent(p)]}

\* C18: the summary in a prompt takes the guesser's perspective exactly when
\* the asking player was the guesser of the previous turn, and prints the
\* scores as they were when the previous turn ended.
C18_SummaryPerspective ==
    (pc \in {"guess", "accuse"} /\ previous_turn_result # NoResult) =>
        LET summary == frame.user_message.summary
        IN  /\ summary.template \in GuesserTemplates \cup FlipperTemplates
            /\ summary.template \in GuesserTemplates <=> frame.player = last_scored.guesser
            /\ summary.template \in FlipperTemplates <=> frame.player = last_scored.flipper
            /\ summary.player = frame.player
            /\ summary.player_score = last_scored.after[frame.player]
            /\ summary.opponent_score = last_scored.after[Opponent(frame.player)]

\* The flipper of the second turn, the guesser of the first, is told of its
\* unaccused ESP guess and the score of 1 to 0.
C18_Witness ==
    /\ pc = "accuse"
    /\ turns_played = 1
    /\ frame.player = last_scored.guesser
    /\ frame.user_message.summary.template = "guesser: used ESP, not accused: You gained 1 point"
    /\ frame.user_message.summary.player_score = 1
    /\ frame.user_message.summary.opponent_score = 0

\* The value of a stored result's "scores": the dictionary self.scores as it is now.
ScoresField(result) == IF result.scores = "self.scores" THEN scores ELSE result.scores

\* C19: in every state the "scores" of the stored previous turn result are the
\* scores as the turn it records left them.
C19_StoredResultImmutable ==
    previous_turn_result # NoResult =>
        /\ ScoresField(previous_turn_result) = last_scored.after
        /\ previous_turn_result.score_changes = last_scored.score_changes
        /\ previous_turn_result.coin_result = last_scored.coin_result
        /\ previous_turn_result.guess = last_scored.guess

\* A temperature within rounding of the ceiling 1.0.
AtCeiling(t) == t[1] = 10

\* C20: within a query the temperatures of the attempts never decrease, each is
\* the one before plus 0.1 and none is above 1.0; the error of exhausted
\* retries follows an invalid attempt made at the ceiling.
C20_TemperatureSteps ==
    /\ TempLeq(models[player1].temperature, Ceiling)
    /\ \A i \in 1..Len(frame.tried) :
        /\ TempLeq(frame.tried[i], Ceiling)
        /\ i > 1 =>
            /\ TempLeq(frame.tried[i - 1], frame.tried[i])
            /\ frame.tried[i] = FloatAddStep(frame.tried[i - 1])
    /\ frame.status = "ValueError" =>
        /\ Len(frame.tried) >= 1
        /\ AtCeiling(frame.tried[Len(frame.tried)])

\* C21: a round has exactly two turns, current_turn being 1 and then 2, and
\* starts with flipper = player1 and guesser = player2: player1 flips in turn 1
\* and player2 in turn 2 of every round, and a round ends, and the next starts,
\* only after its second turn.
C21_TwoTurnsPerRound ==
    /\ [](/\ current_turn \in 0..2
          /\ pc \in {"guess", "accuse", "summarize"} =>
                /\ current_round >= 1
                /\ call \in {1, 2}
                /\ current_turn = call
                /\ flipper = (IF current_turn = 1 THEN player1 ELSE player2)
                /\ guesser = (IF current_turn = 1 THEN player2 ELSE player1)
                /\ turns_played = 2 * (current_round - 1) + (current_turn - 1)
          /\ pc = "play_turn" => (call \in {1, 2} /\ current_turn = call - 1)
          /\ pc \in {"play_match", "done"} =>
                /\ flipper = player1
                /\ guesser = player2
                /\ turns_played = 2 * current_round
                /\ current_round > 0 => current_turn = 2
          /\ \A i \in 1..Len(turns) :
                /\ turns[i].turn \in {1, 2}
                /\ turns[i].flipper = (IF turns[i].turn = 1 THEN player1 ELSE player2))
    /\ [][current_round' # current_round =>
            /\ current_round' = current_round + 1
            /\ current_turn' = 0
            /\ flipper = player1 /\ guesser = player2
            /\ flipper' = player1 /\ guesser' = player2
            /\ turns_played = 2 * current_round]_vars
    /\ [][current_turn' # current_turn =>
            \/ current_turn' = 0 /\ current_round' = current_round + 1
            \/ /\ current_turn' = current_turn + 1
               /\ current_round' = current_round
               /\ pc' = "guess"]_vars

\* The second turn of the second round is in its accusation phase, player2
\* flipping.
C21_Witness ==
    /\ pc = "accuse"
    /\ current_round = 2
    /\ current_turn = 2
    /\ flipper = player2
    /\ guesser = player1
    /\ turns_played = 3

\* C22: a response the guess validator accepts is parsed by parse_guess without
\* error, and one the accusation validator accepts by parse_accusation; so a
\* turn is aborted by no error but the exhausted retries of a query.
C22_OnlyExhaustionAborts ==
    /\ verdict.valid => ~verdict.raised
    /\ (pc = "guess" /\ frame.status = "returned") =>
            /\ validate_guess_action(frame.response)
            /\ ~parse_guess(frame.response).raised
    /\ (pc = "accuse" /\ frame.status = "returned") =>
            /\ validate_accuse_action(frame.response)
            /\ ~parse_accusation(frame.response).raised
    /\ frame.status # "ParseError"
    /\ pc = "aborted" => frame.status = "ValueError"

\* C23: a query, retries included, changes the history and the temperature of
\* the agent it is addressed to and of no other; in a turn the guesser's agent
\* is queried once, to success, and then the flipper's once, so that after
\* every completed turn each agent has answered one query per turn and, when no
\* provider call has failed, its history holds one request/response pair per
\* turn.
C23_QueriesArePrivate ==
    /\ [][\A p \in Players :
            models'[p] # models[p] => (frame.status = "running" /\ frame.player = p)]_vars
    /\ [](/\ pc = "guess" =>
                /\ frame.player = guesser
                /\ asked[guesser] = turns_played + 1
                /\ asked[flipper] = turns_played /\ returned[flipper] = turns_played
          /\ pc = "accuse" =>
                /\ frame.player = flipper
                /\ asked[guesser] = turns_played + 1 /\ returned[guesser] = turns_played + 1
                /\ asked[flipper] = turns_played + 1
          /\ pc \in {"play_turn", "play_match", "done"} =>
                \A p \in Players : asked[p] = turns_played /\ returned[p] = turns_played
          /\ failures = 0 =>
                \A p \in Players :
                    SelectSeq(models[p].messages, IsNotSystem) = ExchangePairs(returned[p])
          /\ (failures = 0 /\ pc \in {"play_turn", "play_match", "done"}) =>
                \A p \in Players :
                    SelectSeq(models[p].messages, IsNotSystem) = ExchangePairs(turns_played))

\* In the second turn the flipper, player2, has answered on its third attempt,
\* no provider call having failed: its history is the system message and the
\* two pairs of its two queries, and player1's the pairs of its own two.
C23_Witness ==
    /\ pc = "accuse"
    /\ frame.status = "returned"
    /\ frame.attempt = 2
    /\ frame.player = player2
    /\ turns_played = 1
    /\ failures = 0
    /\ Len(models[player2].messages) = 5
    /\ Len(models[player1].messages) = 4

\* C24: in every turn the flipper's score change is 0 or 10 and the guesser's
\* 0, 1 or 2; the flipper gets 10 only in a turn of an accused ESP guess, in
\* which the guesser gets exactly 1, and the guesser gets 2 only for a correct
\* guess without ESP that was accused.
C24_DeltaShapes ==
    /\ pc = "summarize" =>
            /\ score_changes[flipper] \in {0, 10}
            /\ score_changes[guesser] \in {0, 1, 2}
            /\ score_changes[flipper] = 10 =>
                    (esp_used /\ esp_accusation /\ score_changes[guesser] = 1)
            /\ score_changes[guesser] = 2 =>
                    (~esp_used /\ esp_accusation /\ guess = coin_result)
    /\ last_scored # NoScored =>
            LET f == last_scored.score_changes[last_scored.flipper]
                g == last_scored.score_changes[last_scored.guesser]
            IN  /\ f \in {0, 10}
                /\ g \in {0, 1, 2}
                /\ f = 10 =>
                        /\ g = 1
                        /\ last_scored.guess_action = "USE_ESP"
                        /\ last_scored.accuse_action = "ACCUSE_ESP"
                /\ g = 2 =>
                        /\ last_scored.guess_action = GuessActionFor(last_scored.coin_result)
                        /\ last_scored.accuse_action = "ACCUSE_ESP"
                /\ last_scored.after[last_scored.flipper]
                     = last_scored.before[last_scored.flipper] + f
                /\ last_scored.after[last_scored.guesser]
                     = last_scored.before[last_scored.guesser] + g

\* The second turn of a round was an accused ESP guess on heads, 10 to the
\* flipper and 1 to the guesser, after a first turn that gave its guesser 2.
C24_Witness ==
    /\ turns_played = 2
    /\ last_scored.coin_result = "heads"
    /\ last_scored.guess_action = "USE_ESP"
    /\ last_scored.accuse_action = "ACCUSE_ESP"
    /\ last_scored.score_changes[last_scored.flipper] = 10
    /\ last_scored.score_changes[last_scored.guesser] = 1
    /\ last_scored.before[last_scored.flipper] = 2

====
